---- MODULE Spec2Model ----
(***************************************************************************)
(* A model of src/cdp_platform.py: the five engines that IntelligentCDP    *)
(* wires together (profile store and identity graph, segmentation,         *)
(* predictive scoring, journey orchestration, privacy), as one state       *)
(* machine.  Every coroutine of the source runs without an await in its    *)
(* body, so each method is one atomic action.                              *)
(***************************************************************************)
EXTENDS Integers, Sequences, FiniteSets, TLC

VARIABLES
    now,               \* datetime.now(), in ticks (TicksPerDay ticks a day)
    profiles,          \* UnifiedProfileEngine.profiles: id -> Customer
    identity_graph,    \* UnifiedProfileEngine.identity_graph: key -> aliases
    segments,          \* RealtimeSegmentation.segments: segment -> list of ids
    predictions,       \* PredictiveAnalytics.predictions: id -> metric -> value
    journeys,          \* JourneyOrchestrator.journeys: name -> stages
    active_journeys,   \* JourneyOrchestrator.active_journeys: id -> name
    consent_records,   \* PrivacyCompliance.consent_records: id -> purpose -> rec
    deletion_requests, \* PrivacyCompliance.deletion_requests: list of records
    call,              \* the call that completed last, and how it ended
    merged,            \* history: the alias groups merge_identities was given
    logged_stage,      \* history: id -> stage of the last journey log line
    tasks,             \* the pipeline tasks of the event loop: task -> frame
    running            \* the task that holds the event loop, or None

vars == <<now, profiles, identity_graph, segments, predictions, journeys,
          active_journeys, consent_records, deletion_requests, call, merged,
          logged_stage, tasks, running>>

\* the state of the event loop
loop == <<tasks, running>>

----------------------------------------------------------------------------
(* Bounds of the model *)

TicksPerDay == 2        \* resolution of the clock: timestamps are half days
MaxClockSteps == 1      \* how many times the clock advances
MaxEvents == 1          \* longest Customer.events list
MaxDeletions == 2       \* longest deletion log
MaxStage == 3           \* largest stage advance_journey is called with

(* Input sets *)

Ids == {"c1", "c2"}
Tasks == {"t1", "t2"}
LtvChoices == {1000, 20000}
AgeChoices == {0, 100 * TicksPerDay}   \* age of last_activity at construction
ClockStep == 45 * TicksPerDay          \* ticks the clock advances at a time
Emails == {"a@x.com", "b@x.com"}
UserIds == {"u1", "u2"}
DeviceIds == {"d1", "d2"}
JourneyNames == {"onboarding", "winback"}
\* the template of IntelligentCDP.demo, and a one-stage template
Onboarding == <<[stage |-> "welcome", action |-> "send_email"],
                [stage |-> "tutorial", action |-> "show_guide"],
                [stage |-> "first_purchase", action |-> "offer_discount"]>>
StageLists == {Onboarding, <<[stage |-> "offer", action |-> "send_email"]>>}
Purposes == {"marketing", "analytics"}

(* Constants of the program *)

HighValueThreshold == 10000
AtRiskDays == 30
DormantDays == 90
NewDays == 30
ActiveDays == 7
ChurnHorizon == 90
LtvEventDivisor == 100
LtvMultiplierTenths == 12   \* the factor 1.2, in tenths

None == "None"

\* Optional[datetime]: None is the empty tuple, a timestamp t the tuple <<t>>
NoTime == <<>>
At(t) == <<t>>

----------------------------------------------------------------------------
(* Helpers *)

Range(s) == {s[i] : i \in 1..Len(s)}

Min(a, b) == IF a < b THEN a ELSE b

\* dict d with key k bound to v (d[k] = v)
Put(d, k, v) == [x \in DOMAIN d \cup {k} |-> IF x = k THEN v ELSE d[x]]

\* dict d without key k (del d[k])
Del(d, k) == [x \in DOMAIN d \ {k} |-> d[x]]

EmptyDict == [x \in {} |-> None]

\* (datetime.now() - ts).days: the difference floored to whole days
DaysSince(ts) == (now - ts) \div TicksPerDay

\* The record of a completed call; no method of the source raises.
Call(op, id, arg, outcome) ==
    [op |-> op, id |-> id, arg |-> arg, outcome |-> outcome, raised |-> None]

----------------------------------------------------------------------------
(* CustomerSegment and the rules of RealtimeSegmentation *)

CustomerSegment == {"high_value", "at_risk", "active", "dormant", "new"}

\* the order of the rules dict, which segment_customer iterates
RuleOrder == <<"high_value", "at_risk", "dormant", "new", "active">>

\* the rules with AT_RISK from the 30th day on, not after it
RuleAtRiskInclusive(s, c) ==
    CASE s = "high_value" -> c.lifetime_value > HighValueThreshold
      [] s = "at_risk" -> c.last_activity # NoTime
                          /\ DaysSince(c.last_activity[1]) >= AtRiskDays
      [] s = "dormant" -> c.last_activity # NoTime
                          /\ DaysSince(c.last_activity[1]) > DormantDays
      [] s = "new" -> DaysSince(c.created_at) < NewDays
      [] s = "active" -> c.last_activity # NoTime
                         /\ DaysSince(c.last_activity[1]) < ActiveDays

Rule(s, c) ==
    CASE s = "high_value" -> c.lifetime_value > HighValueThreshold
      [] s = "at_risk" -> c.last_activity # NoTime
                          /\ DaysSince(c.last_activity[1]) > AtRiskDays
      [] s = "dormant" -> c.last_activity # NoTime
                          /\ DaysSince(c.last_activity[1]) > DormantDays
      [] s = "new" -> DaysSince(c.created_at) < NewDays
      [] s = "active" -> c.last_activity # NoTime
                         /\ DaysSince(c.last_activity[1]) < ActiveDays

\* The list segment_customer builds in customer.segments
Recompute(c) == SelectSeq(RuleOrder, LAMBDA s : Rule(s, c))

----------------------------------------------------------------------------
(* State after IntelligentCDP.__init__ *)

Init ==
    /\ now = 0
    /\ profiles = EmptyDict
    /\ identity_graph = EmptyDict
    /\ segments = [s \in CustomerSegment |-> <<>>]
    /\ predictions = EmptyDict
    /\ journeys = EmptyDict
    /\ active_journeys = EmptyDict
    /\ consent_records = EmptyDict
    /\ deletion_requests = <<>>
    /\ call = Call("init", None, None, None)
    /\ merged = {}
    /\ logged_stage = EmptyDict
    /\ tasks = [t \in Tasks |-> [pc |-> "idle"]]
    /\ running = None

----------------------------------------------------------------------------
(* The clock *)

Tick ==
    /\ now + ClockStep <= MaxClockSteps * ClockStep
    /\ now' = now + ClockStep
    /\ UNCHANGED <<loop, profiles, identity_graph, segments, predictions,
                   journeys, active_journeys, consent_records,
                   deletion_requests, call, merged, logged_stage>>

----------------------------------------------------------------------------
(* Customer and UnifiedProfileEngine *)

\* Customer(id, email, name, lifetime_value=ltv, last_activity=la), with the
\* email and the name that demo derives from the id: the other fields take
\* their defaults (attributes, events and segments empty, created_at now).
\* ref is the identity of the object: who constructed it.
Customer(id, ltv, la) ==
    [id |-> id, email |-> id \o "@example.com", name |-> "Customer " \o id,
     attributes |-> EmptyDict, events |-> <<>>, segments |-> <<>>,
     lifetime_value |-> ltv, last_activity |-> la, created_at |-> now,
     ref |-> "caller"]

\* last_activity as a caller sets it: None, or a moment of age a \in ages
LastActivityChoices(ages) == {NoTime} \cup {At(now - a) : a \in ages}

CreateProfile(id, ltv, la) ==
    /\ profiles' = Put(profiles, id, Customer(id, ltv, la))
    /\ call' = Call("create_profile", id, None, "created")
    /\ UNCHANGED <<loop, now, identity_graph, segments, predictions, journeys,
                   active_journeys, consent_records, deletion_requests,
                   merged, logged_stage>>

\* customer.lifetime_value = ltv, by a holder of the profile
SetLifetimeValue(id, ltv) ==
    /\ id \in DOMAIN profiles
    /\ profiles[id].lifetime_value # ltv
    /\ profiles' = [profiles EXCEPT ![id].lifetime_value = ltv]
    /\ call' = Call("set_lifetime_value", id, ltv, "set")
    /\ UNCHANGED <<loop, now, identity_graph, segments, predictions, journeys,
                   active_journeys, consent_records, deletion_requests,
                   merged, logged_stage>>

\* customer.last_activity = la, by a holder of the profile
SetLastActivity(id, la) ==
    /\ id \in DOMAIN profiles
    /\ profiles[id].last_activity # la
    /\ profiles' = [profiles EXCEPT ![id].last_activity = la]
    /\ call' = Call("set_last_activity", id, la, "set")
    /\ UNCHANGED <<loop, now, identity_graph, segments, predictions, journeys,
                   active_journeys, consent_records, deletion_requests,
                   merged, logged_stage>>

\* customer.events.append(event), by a holder of the profile
AppendEvent(id) ==
    /\ id \in DOMAIN profiles
    /\ Len(profiles[id].events) < MaxEvents
    /\ profiles' = [profiles EXCEPT ![id].events = Append(@, "event")]
    /\ call' = Call("append_event", id, None, "set")
    /\ UNCHANGED <<loop, now, identity_graph, segments, predictions, journeys,
                   active_journeys, consent_records, deletion_requests,
                   merged, logged_stage>>

----------------------------------------------------------------------------
(* RealtimeSegmentation.segment_customer *)

\* segment_customer without the test "customer.id not in self.segments[segment]"
SegmentCustomerAlwaysAppending(id) ==
    /\ id \in DOMAIN profiles
    /\ profiles' = [profiles EXCEPT ![id].segments = Recompute(profiles[id])]
    /\ segments' = [s \in CustomerSegment |->
                      IF Rule(s, profiles[id])
                      THEN Append(segments[s], id)
                      ELSE segments[s]]
    /\ call' = Call("segment_customer", id, None, "segmented")
    /\ UNCHANGED <<loop, now, identity_graph, predictions, journeys,
                   active_journeys, consent_records, deletion_requests,
                   merged, logged_stage>>

SegmentCustomer(id) ==
    /\ id \in DOMAIN profiles
    /\ profiles' = [profiles EXCEPT ![id].segments = Recompute(profiles[id])]
    /\ segments' = [s \in CustomerSegment |->
                      IF Rule(s, profiles[id]) /\ id \notin Range(segments[s])
                      THEN Append(segments[s], id)
                      ELSE segments[s]]
    /\ call' = Call("segment_customer", id, None, "segmented")
    /\ UNCHANGED <<loop, now, identity_graph, predictions, journeys,
                   active_journeys, consent_records, deletion_requests,
                   merged, logged_stage>>

----------------------------------------------------------------------------
(* The profile store and the segmentation engine, for the customers ids *)

SegmentationNext(ids) ==
    \/ Tick
    \/ \E id \in ids, ltv \in LtvChoices :
          \E la \in LastActivityChoices(AgeChoices) : CreateProfile(id, ltv, la)
    \/ \E id \in ids, ltv \in LtvChoices : SetLifetimeValue(id, ltv)
    \/ \E id \in ids :
          \E la \in LastActivityChoices(AgeChoices) : SetLastActivity(id, la)
    \/ \E id \in ids : SegmentCustomer(id)

SpecSegmentation == Init /\ [][SegmentationNext({"c1"})]_vars

\* C1: no stale segments: once a mutating operation on a customer has
\* completed (create_profile, a change of lifetime_value or last_activity,
\* segment_customer), customer.segments is exactly the set of the segments
\* whose rule holds on the customer's current attributes.
C1_NoStaleSegments ==
    (call.op \in {"create_profile", "set_lifetime_value", "set_last_activity",
                  "segment_customer"}
     /\ call.id \in DOMAIN profiles)
    => Range(profiles[call.id].segments)
         = {s \in CustomerSegment : Rule(s, profiles[call.id])}

\* C4: the reverse index agrees with the profile: after segment_customer(c),
\* c.id is in the index list of a segment iff the segment is in c.segments.
C4_IndexAgreesWithProfile ==
    (call.op = "segment_customer" /\ call.id \in DOMAIN profiles)
    => \A s \in CustomerSegment :
          call.id \in Range(segments[s])
          <=> s \in Range(profiles[call.id].segments)

----------------------------------------------------------------------------
(* PredictiveAnalytics.  A churn score is kept as its numerator over        *)
(* ChurnHorizon (score = n / 90.0), a predicted value in thousandths       *)
(* (base * (1.0 + n / 100.0) * 1.2 = base * (100 + n) * 12 / 1000).        *)

ChurnScore(c) ==
    IF c.last_activity # NoTime
    THEN Min(ChurnHorizon, DaysSince(c.last_activity[1]))
    ELSE 0

\* the multiplier without its 1.0: base_value * (len(events) / 100.0) * 1.2
PredictedLtvEventsOnly(c) ==
    c.lifetime_value * Len(c.events) * LtvMultiplierTenths

PredictedLtv(c) ==
    c.lifetime_value * (LtvEventDivisor + Len(c.events)) * LtvMultiplierTenths

\* {'churn_risk': score}: a fresh record, with that one entry
ChurnRecord(score) == [m \in {"churn_risk"} |-> score]

PredictChurn(id) ==
    /\ id \in DOMAIN profiles
    /\ predictions' = Put(predictions, id,
                          ChurnRecord(ChurnScore(profiles[id])))
    /\ call' = Call("predict_churn", id, None, ChurnScore(profiles[id]))
    /\ UNCHANGED <<loop, now, profiles, identity_graph, segments, journeys,
                   active_journeys, consent_records, deletion_requests,
                   merged, logged_stage>>

PredictLtv(id) ==
    /\ id \in DOMAIN profiles
    /\ predictions' =
          Put(predictions, id,
              Put(IF id \in DOMAIN predictions THEN predictions[id]
                                               ELSE EmptyDict,
                  "predicted_ltv", PredictedLtv(profiles[id])))
    /\ call' = Call("predict_ltv", id, None, PredictedLtv(profiles[id]))
    /\ UNCHANGED <<loop, now, profiles, identity_graph, segments, journeys,
                   active_journeys, consent_records, deletion_requests,
                   merged, logged_stage>>

PredictiveNext(ids, ltvs, ages) ==
    \/ Tick
    \/ \E id \in ids, ltv \in ltvs :
          \E la \in LastActivityChoices(ages) : CreateProfile(id, ltv, la)
    \/ \E id \in ids : AppendEvent(id)
    \/ \E id \in ids : PredictChurn(id)
    \/ \E id \in ids : PredictLtv(id)

SpecPredictive == Init /\ [][PredictiveNext(Ids, {1000}, {0})]_vars

\* C7: predict_churn replaces only the 'churn_risk' entry of the customer's
\* prediction record and predict_ltv only the 'predicted_ltv' entry; each
\* leaves the other metric's entry, and every other customer's record,
\* unchanged.
C7_PerMetricOverwrite ==
    [][\A id \in DOMAIN predictions :
         /\ (call'.op \in {"predict_churn", "predict_ltv"} /\ call'.id # id)
            => (id \in DOMAIN predictions'
                /\ predictions'[id] = predictions[id])
         /\ (call'.op = "predict_churn" /\ call'.id = id
             /\ "predicted_ltv" \in DOMAIN predictions[id])
            => ("predicted_ltv" \in DOMAIN predictions'[id]
                /\ predictions'[id]["predicted_ltv"]
                     = predictions[id]["predicted_ltv"])
         /\ (call'.op = "predict_ltv" /\ call'.id = id
             /\ "churn_risk" \in DOMAIN predictions[id])
            => ("churn_risk" \in DOMAIN predictions'[id]
                /\ predictions'[id]["churn_risk"]
                     = predictions[id]["churn_risk"])]_vars

----------------------------------------------------------------------------
(* UnifiedProfileEngine.merge_identities *)

\* hashlib.md5(email.encode()).hexdigest(): one key per email
Md5(email) == <<"md5", email>>

\* the merge that assigns the key's alias set instead of updating it
MergeIdentitiesReplacing(email, user_id, device_id) ==
    /\ identity_graph' =
          Put(identity_graph, Md5(email), {email, user_id, device_id})
    /\ merged' = merged \cup {{email, user_id, device_id}}
    /\ call' = Call("merge_identities", email, <<user_id, device_id>>, "merged")
    /\ UNCHANGED <<loop, now, profiles, segments, predictions, journeys,
                   active_journeys, consent_records, deletion_requests,
                   logged_stage>>

MergeIdentities(email, user_id, device_id) ==
    /\ identity_graph' =
          Put(identity_graph, Md5(email),
              (IF Md5(email) \in DOMAIN identity_graph
               THEN identity_graph[Md5(email)] ELSE {})
              \cup {email, user_id, device_id})
    /\ merged' = merged \cup {{email, user_id, device_id}}
    /\ call' = Call("merge_identities", email, <<user_id, device_id>>, "merged")
    /\ UNCHANGED <<loop, now, profiles, segments, predictions, journeys,
                   active_journeys, consent_records, deletion_requests,
                   logged_stage>>

IdentityNext ==
    \E email \in Emails, user_id \in UserIds, device_id \in DeviceIds :
        MergeIdentities(email, user_id, device_id)

SpecIdentity == Init /\ [][IdentityNext]_vars

\* C5: alias uniqueness: every alias is in the alias set of at most one
\* canonical key of the identity graph.
C5_AliasUniqueness ==
    \A k1, k2 \in DOMAIN identity_graph :
        k1 # k2 => identity_graph[k1] \cap identity_graph[k2] = {}

\* C6: merge order independence: two alias groups that share an alias and
\* were merged by separate calls end under a single canonical key whose
\* alias set holds the union of the two groups.
C6_MergeOrderIndependence ==
    \A g1, g2 \in merged :
        g1 \cap g2 # {}
        => \E k \in DOMAIN identity_graph :
              /\ g1 \cup g2 \subseteq identity_graph[k]
              /\ \A k2 \in DOMAIN identity_graph \ {k} :
                    identity_graph[k2] \cap (g1 \cup g2) = {}

\* C17: aliases are never dropped: in every step every canonical key of the
\* identity graph is still a key afterwards and its alias set afterwards
\* contains its alias set before, so a recorded alias stays recorded.
C17_AliasesNeverDropped ==
    [][\A k \in DOMAIN identity_graph :
          /\ k \in DOMAIN identity_graph'
          /\ identity_graph[k] \subseteq identity_graph'[k]]_vars

\* C17, reached: a second merge under a canonical key has added aliases to
\* the ones the first merge recorded, and another key exists beside it.
C17_KeyMergedTwice ==
    /\ call.op = "merge_identities"
    /\ Cardinality(identity_graph[Md5(call.id)]) > 3
    /\ Cardinality(DOMAIN identity_graph) > 1

----------------------------------------------------------------------------
(* JourneyOrchestrator.  The source keeps no stage index: the only trace   *)
(* of a stage is the log line of advance_journey.  logged_stage records,   *)
(* per customer, the stage of that line, and 0 from the enrollment on.     *)

DefineJourney(name, stages) ==
    /\ journeys' = Put(journeys, name, stages)
    /\ call' = Call("define_journey", name, Len(stages), "defined")
    /\ UNCHANGED <<loop, now, profiles, identity_graph, segments, predictions,
                   active_journeys, consent_records, deletion_requests,
                   merged, logged_stage>>

EnrollCustomer(customer_id, journey_name) ==
    /\ IF journey_name \in DOMAIN journeys
       THEN /\ active_journeys' = Put(active_journeys, customer_id, journey_name)
            /\ logged_stage' = Put(logged_stage, customer_id, 0)
            /\ call' = Call("enroll_customer", customer_id, journey_name,
                            "enrolled")
       ELSE /\ UNCHANGED <<active_journeys, logged_stage>>
            /\ call' = Call("enroll_customer", customer_id, journey_name,
                            "ignored")
    /\ UNCHANGED <<loop, now, profiles, identity_graph, segments, predictions,
                   journeys, consent_records, deletion_requests, merged>>

AdvanceJourney(customer_id, stage) ==
    /\ IF customer_id \in DOMAIN active_journeys
       THEN /\ logged_stage' = Put(logged_stage, customer_id, stage)
            /\ call' = Call("advance_journey", customer_id, stage, "advanced")
       ELSE /\ UNCHANGED logged_stage
            /\ call' = Call("advance_journey", customer_id, stage, "ignored")
    /\ UNCHANGED <<loop, now, profiles, identity_graph, segments, predictions,
                   journeys, active_journeys, consent_records,
                   deletion_requests, merged>>

JourneyNext(ids, names, lists) ==
    \/ \E name \in names, stages \in lists : DefineJourney(name, stages)
    \/ \E id \in ids, name \in names : EnrollCustomer(id, name)
    \/ \E id \in ids, stage \in 0..MaxStage : AdvanceJourney(id, stage)

SpecJourney == Init /\ [][JourneyNext(Ids, JourneyNames, StageLists)]_vars

\* C8: journey completion: advance_journey(customer, n) on a customer
\* enrolled in a journey of n stages completes the enrollment: the customer
\* is no longer in the active enrollments.
C8_JourneyCompletion ==
    [][\A id \in DOMAIN active_journeys :
         (call'.op = "advance_journey" /\ call'.id = id
          /\ call'.arg = Len(journeys[active_journeys[id]]))
         => id \notin DOMAIN active_journeys']_vars

\* C9: enroll_customer with a journey name that is not defined fails with
\* NotFound and leaves active_journeys unchanged.
C9_EnrollUnregisteredRejected ==
    [][(call'.op = "enroll_customer" /\ call'.arg \notin DOMAIN journeys)
       => (call'.raised = "NotFound"
           /\ active_journeys' = active_journeys)]_vars

\* C10: journey advance is monotonic: between two enroll_customer calls
\* for a customer the stage index of the customer never decreases.
C10_AdvanceMonotonic ==
    [][\A id \in DOMAIN logged_stage :
         ~(call'.op = "enroll_customer" /\ call'.id = id)
         => (id \in DOMAIN logged_stage'
             /\ logged_stage'[id] >= logged_stage[id])]_vars

----------------------------------------------------------------------------
(* PrivacyCompliance.  IntelligentCDP holds one profile engine, and        *)
(* process_deletion_request is given its profiles dict.                    *)

\* record_consent with a fresh record per call, as predict_churn writes one
RecordConsentFreshRecord(customer_id, purpose, granted) ==
    /\ consent_records' =
          Put(consent_records, customer_id,
              Put(EmptyDict, purpose,
                  [granted |-> granted, timestamp |-> now]))
    /\ call' = Call("record_consent", customer_id, <<purpose, granted>>,
                    "recorded")
    /\ UNCHANGED <<loop, now, profiles, identity_graph, segments, predictions,
                   journeys, active_journeys, deletion_requests, merged,
                   logged_stage>>

RecordConsent(customer_id, purpose, granted) ==
    /\ consent_records' =
          Put(consent_records, customer_id,
              Put(IF customer_id \in DOMAIN consent_records
                  THEN consent_records[customer_id] ELSE EmptyDict,
                  purpose, [granted |-> granted, timestamp |-> now]))
    /\ call' = Call("record_consent", customer_id, <<purpose, granted>>,
                    "recorded")
    /\ UNCHANGED <<loop, now, profiles, identity_graph, segments, predictions,
                   journeys, active_journeys, deletion_requests, merged,
                   logged_stage>>

\* process_deletion_request without its test of customer_id in profiles
ProcessDeletionRequestUnguarded(customer_id) ==
    /\ Len(deletion_requests) < MaxDeletions
    /\ profiles' = Del(profiles, customer_id)
    /\ deletion_requests' =
          Append(deletion_requests,
                 [customer_id |-> customer_id, processed_at |-> now])
    /\ call' = Call("process_deletion_request", customer_id, None, "deleted")
    /\ UNCHANGED <<loop, now, identity_graph, segments, predictions, journeys,
                   active_journeys, consent_records, merged, logged_stage>>

\* process_deletion_request as seen between its del and its append
ProcessDeletionRequestRemovalOnly(customer_id) ==
    /\ IF customer_id \in DOMAIN profiles
       THEN /\ profiles' = Del(profiles, customer_id)
            /\ UNCHANGED deletion_requests
            /\ call' = Call("process_deletion_request", customer_id, None,
                            "deleted")
       ELSE /\ UNCHANGED <<profiles, deletion_requests>>
            /\ call' = Call("process_deletion_request", customer_id, None,
                            "absent")
    /\ UNCHANGED <<loop, now, identity_graph, segments, predictions, journeys,
                   active_journeys, consent_records, merged, logged_stage>>

\* process_deletion_request that also drops the customer's consent record
ProcessDeletionRequestErasingConsent(customer_id) ==
    /\ IF customer_id \in DOMAIN profiles
       THEN /\ Len(deletion_requests) < MaxDeletions
            /\ profiles' = Del(profiles, customer_id)
            /\ consent_records' = Del(consent_records, customer_id)
            /\ deletion_requests' =
                  Append(deletion_requests,
                         [customer_id |-> customer_id, processed_at |-> now])
            /\ call' = Call("process_deletion_request", customer_id, None,
                            "deleted")
       ELSE /\ UNCHANGED <<profiles, deletion_requests, consent_records>>
            /\ call' = Call("process_deletion_request", customer_id, None,
                            "absent")
    /\ UNCHANGED <<loop, now, identity_graph, segments, predictions, journeys,
                   active_journeys, merged, logged_stage>>

ProcessDeletionRequest(customer_id) ==
    /\ IF customer_id \in DOMAIN profiles
       THEN /\ Len(deletion_requests) < MaxDeletions
            /\ profiles' = Del(profiles, customer_id)
            /\ deletion_requests' =
                  Append(deletion_requests,
                         [customer_id |-> customer_id, processed_at |-> now])
            /\ call' = Call("process_deletion_request", customer_id, None,
                            "deleted")
       ELSE /\ UNCHANGED <<profiles, deletion_requests>>
            /\ call' = Call("process_deletion_request", customer_id, None,
                            "absent")
    /\ UNCHANGED <<loop, now, identity_graph, segments, predictions, journeys,
                   active_journeys, consent_records, merged, logged_stage>>

\* Erasure and what it has to reach: a profile that was segmented, scored
\* and enrolled in a journey.
PrivacyNext(ids) ==
    \/ \E id \in ids : CreateProfile(id, 20000, NoTime)
    \/ \E id \in ids : SegmentCustomer(id)
    \/ \E id \in ids : PredictChurn(id)
    \/ DefineJourney("onboarding", Onboarding)
    \/ \E id \in ids : EnrollCustomer(id, "onboarding")
    \/ \E id \in ids : ProcessDeletionRequest(id)

SpecPrivacy == Init /\ [][PrivacyNext(Ids)]_vars

\* The Deletion records of the log that name id
DeletionsOf(id) ==
    {i \in 1..Len(deletion_requests) : deletion_requests[i].customer_id = id}

\* C2: cascading erasure: after process_deletion_request(id) on an id of
\* the profile store the profile is absent, id is in no list of the segment
\* index, predictions has no record for id, id has no active journey
\* enrollment, and a Deletion record for id is in the log.
C2_CascadingErasure ==
    (call.op = "process_deletion_request" /\ call.outcome = "deleted")
    => /\ call.id \notin DOMAIN profiles
       /\ \A s \in CustomerSegment : call.id \notin Range(segments[s])
       /\ call.id \notin DOMAIN predictions
       /\ call.id \notin DOMAIN active_journeys
       /\ DeletionsOf(call.id) # {}

\* C3: deletion is idempotent: process_deletion_request(id) on an id that
\* is absent from the profile store changes no state (no profile is removed,
\* no Deletion record is appended) and does not raise, and on an id of the
\* store it appends exactly one Deletion record, for that id.
C3_DeletionIdempotent ==
    [][\A id \in Ids :
         (call'.op = "process_deletion_request" /\ call'.id = id)
         => /\ call'.raised = None
            /\ IF id \in DOMAIN profiles
               THEN /\ Len(deletion_requests') = Len(deletion_requests) + 1
                    /\ SubSeq(deletion_requests', 1, Len(deletion_requests))
                         = deletion_requests
                    /\ deletion_requests'[Len(deletion_requests')].customer_id
                         = id
                    /\ id \notin DOMAIN profiles'
               ELSE UNCHANGED <<now, profiles, identity_graph, segments,
                                predictions, journeys, active_journeys,
                                consent_records, deletion_requests>>]_vars

\* The number of Deletion records of log that name id
DeletionCount(log, id) ==
    Cardinality({i \in 1..Len(log) : log[i].customer_id = id})

\* C19: the deletion log is append-only and in step with the store: every
\* step keeps the records of the log as they are, in place, and the number
\* of Deletion records for an id grows by one in exactly the steps in which
\* process_deletion_request removes the profile of that id from the store,
\* and is unchanged in every other step (so removal and append are one step
\* and the count equals the number of removals).
C19_DeletionLogInStep ==
    [][/\ Len(deletion_requests') >= Len(deletion_requests)
       /\ SubSeq(deletion_requests', 1, Len(deletion_requests))
            = deletion_requests
       /\ \A id \in Ids :
             DeletionCount(deletion_requests', id)
               = DeletionCount(deletion_requests, id)
                 + (IF /\ call'.op = "process_deletion_request"
                       /\ call'.id = id
                       /\ id \in DOMAIN profiles
                       /\ id \notin DOMAIN profiles'
                    THEN 1 ELSE 0)]_vars

\* C19, reached: the profile of one id was removed twice, and the log
\* holds two Deletion records for it.
C19_RemovedTwice ==
    /\ call.op = "process_deletion_request"
    /\ call.outcome = "deleted"
    /\ DeletionCount(deletion_requests, call.id) = 2
    /\ call.id \notin DOMAIN profiles

\* C3, reached: a second process_deletion_request for an id already erased
\* has completed, and the log holds the one record of the first call.
C3_SecondDeletionReached ==
    /\ call.op = "process_deletion_request"
    /\ call.outcome = "absent"
    /\ call.id \notin DOMAIN profiles
    /\ Cardinality(DeletionsOf(call.id)) = 1

----------------------------------------------------------------------------
(* Event pipelines as tasks of one asyncio event loop.  A pipeline is the  *)
(* body of the loop of IntelligentCDP.demo: construct the Customer,        *)
(* create_profile, then await segment_customer, predict_churn and          *)
(* predict_ltv on that object.  A task keeps the event loop until it       *)
(* suspends or ends; awaiting a coroutine hands the loop over only if the  *)
(* coroutine suspends.                                                     *)

\* Whether the awaited coroutine suspends: none of the three has an await,
\* a sleep or any other suspension point in its body
AwaitYieldsAlways(coroutine) == TRUE

AwaitYields(coroutine) == FALSE

\* who holds the event loop once task t's await of coroutine is over
AfterAwait(t, coroutine) == IF AwaitYields(coroutine) THEN None ELSE t

Runnable(t) == running \in {None, t}

\* whether the profile store still holds the object task t constructed
Stored(t) ==
    /\ tasks[t].id \in DOMAIN profiles
    /\ profiles[tasks[t].id].ref = t

\* the Customer object of task t
Obj(t) == IF Stored(t) THEN profiles[tasks[t].id] ELSE tasks[t].customer

\* asyncio.create_task(pipeline): the task is ready, its arguments fixed
Submit(t, id, ltv, la) ==
    /\ tasks[t].pc = "idle"
    /\ tasks' = [tasks EXCEPT ![t] = [pc |-> "ready", id |-> id, ltv |-> ltv,
                                      la |-> la]]
    /\ UNCHANGED <<running, now, profiles, identity_graph, segments,
                   predictions, journeys, active_journeys, consent_records,
                   deletion_requests, call, merged, logged_stage>>

\* customer = Customer(...); self.profile_engine.create_profile(customer)
PipelineCreate(t) ==
    /\ tasks[t].pc = "ready"
    /\ Runnable(t)
    /\ LET c == [Customer(tasks[t].id, tasks[t].ltv, tasks[t].la)
                   EXCEPT !.ref = t]
       IN /\ profiles' = Put(profiles, c.id, c)
          /\ tasks' = [tasks EXCEPT ![t] = [pc |-> "segment", id |-> c.id,
                                            customer |-> c]]
          /\ call' = Call("create_profile", c.id, None, "created")
    /\ running' = t
    /\ UNCHANGED <<now, identity_graph, segments, predictions, journeys,
                   active_journeys, consent_records, deletion_requests,
                   merged, logged_stage>>

\* await self.segmentation.segment_customer(customer)
PipelineSegment(t) ==
    /\ tasks[t].pc = "segment"
    /\ Runnable(t)
    /\ LET c == Obj(t)
           d == [c EXCEPT !.segments = Recompute(c)]
       IN /\ tasks' = [tasks EXCEPT ![t].pc = "churn", ![t].customer = d]
          /\ profiles' = IF Stored(t) THEN [profiles EXCEPT ![c.id] = d]
                                      ELSE profiles
          /\ segments' = [s \in CustomerSegment |->
                            IF Rule(s, c) /\ c.id \notin Range(segments[s])
                            THEN Append(segments[s], c.id)
                            ELSE segments[s]]
          /\ call' = Call("segment_customer", c.id, None, "segmented")
    /\ running' = AfterAwait(t, "segment_customer")
    /\ UNCHANGED <<now, identity_graph, predictions, journeys,
                   active_journeys, consent_records, deletion_requests,
                   merged, logged_stage>>

\* await self.predictive.predict_churn(customer)
PipelineChurn(t) ==
    /\ tasks[t].pc = "churn"
    /\ Runnable(t)
    /\ LET c == Obj(t)
       IN /\ predictions' = Put(predictions, c.id, ChurnRecord(ChurnScore(c)))
          /\ call' = Call("predict_churn", c.id, None, ChurnScore(c))
    /\ tasks' = [tasks EXCEPT ![t].pc = "ltv"]
    /\ running' = AfterAwait(t, "predict_churn")
    /\ UNCHANGED <<now, profiles, identity_graph, segments, journeys,
                   active_journeys, consent_records, deletion_requests,
                   merged, logged_stage>>

\* await self.predictive.predict_ltv(customer), and the task ends
PipelineLtv(t) ==
    /\ tasks[t].pc = "ltv"
    /\ Runnable(t)
    /\ LET c == Obj(t)
       IN /\ predictions' =
                Put(predictions, c.id,
                    Put(IF c.id \in DOMAIN predictions THEN predictions[c.id]
                                                       ELSE EmptyDict,
                        "predicted_ltv", PredictedLtv(c)))
          /\ call' = Call("predict_ltv", c.id, None, PredictedLtv(c))
    /\ tasks' = [tasks EXCEPT ![t].pc = "done"]
    /\ running' = None
    /\ UNCHANGED <<now, profiles, identity_graph, segments, journeys,
                   active_journeys, consent_records, deletion_requests,
                   merged, logged_stage>>

PipelineNext(ids, ltvs, ages) ==
    \/ \E t \in Tasks, id \in ids, ltv \in ltvs :
          \E la \in LastActivityChoices(ages) : Submit(t, id, ltv, la)
    \/ \E t \in Tasks : PipelineCreate(t)
    \/ \E t \in Tasks : PipelineSegment(t)
    \/ \E t \in Tasks : PipelineChurn(t)
    \/ \E t \in Tasks : PipelineLtv(t)

\* two pipelines for one customer id, with attributes of their own
SpecPipeline == Init /\ [][PipelineNext({"c1"}, LtvChoices, AgeChoices)]_vars

\* every pipeline that was submitted has ended, and all were submitted
PipelinesDone == \A t \in Tasks : tasks[t].pc = "done"

\* C11: per-profile serialization: when the pipelines of two events for one
\* customer id have run as tasks of the event loop, the segments of the
\* stored customer and the customer's prediction record are the ones
\* derived from the stored customer's final attributes, not a stale snapshot.
C11_NoStaleDerivedState ==
    PipelinesDone
    => \A id \in DOMAIN profiles :
          /\ profiles[id].segments = Recompute(profiles[id])
          /\ id \in DOMAIN predictions
          /\ predictions[id] =
               Put(ChurnRecord(ChurnScore(profiles[id])),
                   "predicted_ltv", PredictedLtv(profiles[id]))

\* C11, reached: two pipelines for the same id, given different attributes,
\* have both run to their end.
C11_TwoPipelinesRan ==
    /\ PipelinesDone
    /\ \E t, u \in Tasks :
          /\ t # u
          /\ tasks[t].id = tasks[u].id
          /\ tasks[t].customer.lifetime_value # tasks[u].customer.lifetime_value
          /\ tasks[t].customer.last_activity # tasks[u].customer.last_activity

----------------------------------------------------------------------------
(* Consent, recorded for customers in and out of the profile store, and    *)
(* the erasure of the stored ones                                          *)

ConsentNext(ids, stored) ==
    \/ Tick
    \/ \E id \in stored : CreateProfile(id, 1000, NoTime)
    \/ \E id \in ids, purpose \in Purposes, granted \in BOOLEAN :
          RecordConsent(id, purpose, granted)
    \/ \E id \in stored : ProcessDeletionRequest(id)

\* consent for both customers; only c1 ever has a profile
SpecConsent == Init /\ [][ConsentNext(Ids, {"c1"})]_vars

\* whether a consent entry is recorded for (id, purpose)
HasConsent(records, id, purpose) ==
    id \in DOMAIN records /\ purpose \in DOMAIN records[id]

\* C12: consent is last-write-wins per purpose and needs no profile:
\* record_consent(id, purpose, granted) does not raise, leaves granted as
\* the value stored for (id, purpose), and leaves the entry of every other
\* customer and of every other purpose as it was.
C12_ConsentLastWriteWins ==
    [][call'.op = "record_consent"
       => /\ call'.raised = None
          /\ HasConsent(consent_records', call'.id, call'.arg[1])
          /\ consent_records'[call'.id][call'.arg[1]].granted = call'.arg[2]
          /\ \A id \in Ids, purpose \in Purposes :
                (id # call'.id \/ purpose # call'.arg[1])
                => /\ HasConsent(consent_records', id, purpose)
                      <=> HasConsent(consent_records, id, purpose)
                   /\ HasConsent(consent_records, id, purpose)
                      => consent_records'[id][purpose]
                           = consent_records[id][purpose]]_vars

\* C12, reached: consent was recorded for a customer that has no profile,
\* after an earlier entry for another purpose and one for another customer.
C12_ConsentWithoutProfile ==
    /\ call.op = "record_consent"
    /\ call.id \notin DOMAIN profiles
    /\ DOMAIN consent_records = Ids
    /\ DOMAIN consent_records[call.id] = Purposes
    /\ \E purpose \in Purposes :
          consent_records[call.id][purpose].timestamp
            < consent_records[call.id][call.arg[1]].timestamp

\* C20: erasure leaves consent untouched: process_deletion_request(id)
\* never changes consent_records, so every consent entry recorded for id
\* before the deletion is present, with the same granted value, after it.
C20_ErasureKeepsConsent ==
    [][call'.op = "process_deletion_request"
       => /\ consent_records' = consent_records
          /\ \A purpose \in Purposes :
                HasConsent(consent_records, call'.id, purpose)
                => /\ HasConsent(consent_records', call'.id, purpose)
                   /\ consent_records'[call'.id][purpose].granted
                        = consent_records[call'.id][purpose].granted]_vars

\* C20, reached: the profile of a customer was erased while consent
\* entries, one granted and one refused, are recorded for that customer.
C20_ErasedWithConsent ==
    /\ call.op = "process_deletion_request"
    /\ call.outcome = "deleted"
    /\ call.id \notin DOMAIN profiles
    /\ HasConsent(consent_records, call.id, "marketing")
    /\ HasConsent(consent_records, call.id, "analytics")
    /\ consent_records[call.id]["marketing"].granted
    /\ ~consent_records[call.id]["analytics"].granted

----------------------------------------------------------------------------
(* The segmentation rules on customers whose lifetime value and ages lie   *)
(* on both sides of every threshold                                        *)

\* ages of last_activity on both sides of the thresholds 7, 30 and 90, to
\* the tick, and a moment later than the clock
RuleAges ==
    {6 * TicksPerDay + 1, 7 * TicksPerDay, 10 * TicksPerDay,
     30 * TicksPerDay, 30 * TicksPerDay + 1, 31 * TicksPerDay,
     90 * TicksPerDay + 1, 91 * TicksPerDay, -1}

\* ages of created_at on both sides of the threshold 30
CreatedAges == {10 * TicksPerDay, 29 * TicksPerDay + 1, 30 * TicksPerDay, -1}

RuleLtvs == {1000, HighValueThreshold, HighValueThreshold + 1}

\* create_profile(Customer(..., last_activity=la, created_at=created))
CreateProfileCreatedAt(id, ltv, la, created) ==
    /\ profiles' = Put(profiles, id,
                       [Customer(id, ltv, la) EXCEPT !.created_at = created])
    /\ call' = Call("create_profile", id, None, "created")
    /\ UNCHANGED <<loop, now, identity_graph, segments, predictions, journeys,
                   active_journeys, consent_records, deletion_requests,
                   merged, logged_stage>>

RulesNext(ids) ==
    \/ \E id \in ids, ltv \in RuleLtvs, a \in CreatedAges :
          \E la \in LastActivityChoices(RuleAges) :
             CreateProfileCreatedAt(id, ltv, la, now - a)
    \/ \E id \in ids : SegmentCustomer(id)

SpecRules == Init /\ [][RulesNext({"c1"})]_vars

\* The segments of customer c as the five rules are stated, on the ticks
\* elapsed: more than n whole days is at least (n + 1) days of ticks, fewer
\* than n whole days is fewer than n days of ticks.
StatedSegments(c) ==
    {s \in CustomerSegment :
       \/ s = "high_value" /\ c.lifetime_value > 10000
       \/ s = "at_risk" /\ c.last_activity # NoTime
                        /\ now - c.last_activity[1] >= 31 * TicksPerDay
       \/ s = "dormant" /\ c.last_activity # NoTime
                        /\ now - c.last_activity[1] >= 91 * TicksPerDay
       \/ s = "new" /\ now - c.created_at < 30 * TicksPerDay
       \/ s = "active" /\ c.last_activity # NoTime
                       /\ now - c.last_activity[1] < 7 * TicksPerDay}

\* C13: segment_customer yields exactly the segments of the five rules; a
\* customer with lifetime_value 1000, last active 10 days ago and created 10
\* days ago gets exactly NEW; every DORMANT customer is also AT_RISK.
C13_SegmentationRules ==
    (call.op = "segment_customer" /\ call.id \in DOMAIN profiles)
    => LET c == profiles[call.id]
       IN /\ Range(c.segments) = StatedSegments(c)
          /\ Len(c.segments) = Cardinality(StatedSegments(c))
          /\ "dormant" \in Range(c.segments) => "at_risk" \in Range(c.segments)
          /\ (/\ c.lifetime_value = 1000
              /\ c.last_activity = At(now - 10 * TicksPerDay)
              /\ c.created_at = now - 10 * TicksPerDay)
             => c.segments = <<"new">>

\* C13, reached: the customer of the example has been segmented, as NEW
\* alone.
C13_ExampleSegmented ==
    /\ call.op = "segment_customer"
    /\ call.id \in DOMAIN profiles
    /\ profiles[call.id].lifetime_value = 1000
    /\ profiles[call.id].last_activity = At(now - 10 * TicksPerDay)
    /\ profiles[call.id].created_at = now - 10 * TicksPerDay
    /\ profiles[call.id].segments = <<"new">>

----------------------------------------------------------------------------
(* The churn score on ages up to and past the horizon, and on a            *)
(* last_activity later than the clock                                      *)

ChurnAges ==
    {-1, 0, 45 * TicksPerDay, 89 * TicksPerDay + 1, 90 * TicksPerDay,
     100 * TicksPerDay}

SpecChurn == Init /\ [][PredictiveNext({"c1"}, {1000}, ChurnAges)]_vars

\* C14: churn score bounds: the value predict_churn returns and stores lies
\* in [0, 1] (here 0 .. ChurnHorizon, over ChurnHorizon), also for a
\* last_activity later than the clock; it does not decrease as the whole
\* days since last_activity grow; it is 0 when last_activity is absent.
C14_ChurnScoreBounds ==
    /\ \A id \in DOMAIN predictions :
          "churn_risk" \in DOMAIN predictions[id]
          => (0 <= predictions[id]["churn_risk"]
              /\ predictions[id]["churn_risk"] <= ChurnHorizon)
    /\ call.op = "predict_churn"
       => (0 <= call.outcome /\ call.outcome <= ChurnHorizon)
    /\ ChurnScore(Customer("c1", 1000, NoTime)) = 0
    /\ \A a, b \in ChurnAges :
          DaysSince(now - a) <= DaysSince(now - b)
          => ChurnScore(Customer("c1", 1000, At(now - a)))
               <= ChurnScore(Customer("c1", 1000, At(now - b)))

----------------------------------------------------------------------------
(* UnifiedProfileEngine.get_360_view.  The members of CustomerSegment are  *)
(* modelled by their values, so [s.value for s in customer.segments] is    *)
(* the list customer.segments itself.                                      *)

\* the view with the segments counted in place of the events
View360CountingSegments(customer_id) ==
    IF customer_id \notin DOMAIN profiles
    THEN EmptyDict
    ELSE LET customer == profiles[customer_id]
         IN [id |-> customer.id,
             email |-> customer.email,
             name |-> customer.name,
             lifetime_value |-> customer.lifetime_value,
             segments |-> customer.segments,
             total_events |-> Len(customer.segments),
             last_activity |-> customer.last_activity,
             attributes |-> customer.attributes]

View360(customer_id) ==
    IF customer_id \notin DOMAIN profiles
    THEN EmptyDict
    ELSE LET customer == profiles[customer_id]
         IN [id |-> customer.id,
             email |-> customer.email,
             name |-> customer.name,
             lifetime_value |-> customer.lifetime_value,
             segments |-> customer.segments,
             total_events |-> Len(customer.events),
             last_activity |-> customer.last_activity,
             attributes |-> customer.attributes]

Get360View(customer_id) ==
    /\ call' = Call("get_360_view", customer_id, None, View360(customer_id))
    /\ UNCHANGED <<loop, now, profiles, identity_graph, segments, predictions,
                   journeys, active_journeys, consent_records,
                   deletion_requests, merged, logged_stage>>

ViewNext(ids) ==
    \/ \E id \in ids, ltv \in LtvChoices : CreateProfile(id, ltv, NoTime)
    \/ \E id \in ids : AppendEvent(id)
    \/ \E id \in ids : SegmentCustomer(id)
    \/ \E id \in ids : Get360View(id)

SpecView == Init /\ [][ViewNext(Ids)]_vars

\* C15: get_360_view is a total, read-only query: for an id absent from the
\* profile store it returns the empty result without raising; for a present
\* id it returns the profile's id, email, name, lifetime_value, segments,
\* number of events, last_activity and attributes; no registry changes.
C15_ViewTotalReadOnly ==
    [][call'.op = "get_360_view"
       => /\ call'.raised = None
          /\ UNCHANGED <<profiles, identity_graph, segments, predictions,
                         journeys, active_journeys, consent_records,
                         deletion_requests>>
          /\ IF call'.id \notin DOMAIN profiles
             THEN DOMAIN call'.outcome = {}
             ELSE /\ DOMAIN call'.outcome =
                       {"id", "email", "name", "lifetime_value", "segments",
                        "total_events", "last_activity", "attributes"}
                  /\ call'.outcome.id = call'.id
                  /\ call'.outcome.email = profiles[call'.id].email
                  /\ call'.outcome.name = profiles[call'.id].name
                  /\ call'.outcome.lifetime_value
                       = profiles[call'.id].lifetime_value
                  /\ Range(call'.outcome.segments)
                       = Range(profiles[call'.id].segments)
                  /\ call'.outcome.total_events
                       = Len(profiles[call'.id].events)
                  /\ call'.outcome.last_activity
                       = profiles[call'.id].last_activity
                  /\ call'.outcome.attributes
                       = profiles[call'.id].attributes]_vars

\* C15, reached: the view of a segmented customer with an event was
\* returned, while another id is absent from the store.
C15_ViewReturned ==
    /\ call.op = "get_360_view"
    /\ call.id \in DOMAIN profiles
    /\ DOMAIN profiles # Ids
    /\ call.outcome.total_events = 1
    /\ call.outcome.segments # <<>>

----------------------------------------------------------------------------
(* predict_ltv over negative, zero and positive lifetime values.  The      *)
(* prediction is in thousandths, so lifetime_value is compared as          *)
(* lifetime_value * LtvEventDivisor * 10.  The floating-point product is   *)
(* rounded monotonically and lifetime_value is itself a float, so the      *)
(* comparison of the exact values is the comparison the code makes.        *)

LtvValues == {-1000, 0, 1, 1000}

SpecLtv == Init /\ [][PredictiveNext({"c1"}, LtvValues, {0})]_vars

\* C16: for a customer with lifetime_value >= 0 and any number of events,
\* the value predict_ltv returns, which is the value it stores, is greater
\* than or equal to the customer's lifetime_value.
C16_PredictedLtvLowerBound ==
    [][(/\ call'.op = "predict_ltv"
        /\ profiles[call'.id].lifetime_value >= 0)
       => /\ call'.outcome
               >= profiles[call'.id].lifetime_value * LtvEventDivisor * 10
          /\ predictions'[call'.id]["predicted_ltv"] = call'.outcome]_vars

\* C16, reached: predict_ltv has run for a customer with a positive
\* lifetime value and an event, and stored what it returned.
C16_LtvPredicted ==
    /\ call.op = "predict_ltv"
    /\ call.id \in DOMAIN profiles
    /\ profiles[call.id].lifetime_value > 0
    /\ Len(profiles[call.id].events) = MaxEvents
    /\ call.outcome > profiles[call.id].lifetime_value * LtvEventDivisor * 10
    /\ predictions[call.id]["predicted_ltv"] = call.outcome

----------------------------------------------------------------------------
(* The reverse index under repeated and interleaved segment_customer calls *)
(* for two customers whose lifetime value and age change between calls.    *)

IndexNext(ids) ==
    \/ Tick
    \/ \E id \in ids, ltv \in LtvChoices : CreateProfile(id, ltv, NoTime)
    \/ \E id \in ids, ltv \in LtvChoices : SetLifetimeValue(id, ltv)
    \/ \E id \in ids : SegmentCustomer(id)

SpecIndex == Init /\ [][IndexNext(Ids)]_vars

\* C18: no duplicate index entries: every list of the segment reverse index
\* holds each customer id at most once, after any sequence of
\* segment_customer calls, repeated or interleaved.
C18_NoDuplicateIndexEntries ==
    \A s \in CustomerSegment :
        Cardinality(Range(segments[s])) = Len(segments[s])

\* C18, reached: interleaved calls for two customers, the last one a call
\* for c2 that found c2 already in the list of NEW (c1 was added after it)
\* while the rule of NEW held again.
C18_RepeatedCallSkippedEntry ==
    /\ call.op = "segment_customer"
    /\ call.id = "c2"
    /\ segments["new"] = <<"c2", "c1">>
    /\ segments["high_value"] = <<"c1", "c2">>
    /\ "new" \in Range(profiles["c2"].segments)

----------------------------------------------------------------------------
(* The platform: every operation, on every customer *)

Next ==
    \/ Tick
    \/ \E id \in Ids, ltv \in LtvChoices :
          \E la \in LastActivityChoices(AgeChoices) : CreateProfile(id, ltv, la)
    \/ \E id \in Ids, ltv \in LtvChoices : SetLifetimeValue(id, ltv)
    \/ \E id \in Ids :
          \E la \in LastActivityChoices(AgeChoices) : SetLastActivity(id, la)
    \/ \E id \in Ids : AppendEvent(id)
    \/ \E id \in Ids : SegmentCustomer(id)
    \/ \E id \in Ids : PredictChurn(id)
    \/ \E id \in Ids : PredictLtv(id)
    \/ IdentityNext
    \/ JourneyNext(Ids, JourneyNames, StageLists)
    \/ \E id \in Ids, purpose \in Purposes, granted \in BOOLEAN :
          RecordConsent(id, purpose, granted)
    \/ \E id \in Ids : ProcessDeletionRequest(id)
    \/ PipelineNext(Ids, LtvChoices, AgeChoices)
    \/ \E id \in Ids : Get360View(id)
    \/ \E id \in Ids, ltv \in RuleLtvs, a \in CreatedAges :
          \E la \in LastActivityChoices(RuleAges) :
             CreateProfileCreatedAt(id, ltv, la, now - a)

Spec == Init /\ [][Next]_vars

====
